---- MODULE Spec2Model ----
(***************************************************************************)
(* Model of the unreliable-delivery consistency harness                    *)
(* (examples/consistency/src/main.rs): the server loop run_server, the     *)
(* client loop run_client, and the statistics each derives at run end.     *)
(*                                                                         *)
(* Time is an integer count of abstract clock units; each role reads its   *)
(* own monotonic clock, whose origin is the instant the role starts.       *)
(* A sequence number the server has read off the wire is any u64, so it is *)
(* kept as a sequence of limbs, and the u64 / i64 arithmetic of the report *)
(* is carried out on limbs, with the overflow of each operation explicit.  *)
(* Counters the roles only increment stay small and are integers.          *)
(***************************************************************************)
EXTENDS Integers, Sequences, FiniteSets, TLC

(***************************************************************************)
(* Program constants and model bounds                                      *)
(***************************************************************************)
\* tick_duration (server), in clock units
TickDur == 2
\* send_interval and step_interval (client), in clock units
SendInterval == 2
StepInterval == 2
\* number of significand bits of an f32 (position.x carries the sequence)
F32Bits == 24
\* width of the words the server keeps sequence numbers in (u64, and i64 for
\* the loss)
U64Bits == 64

\* args.duration, in clock units
Duration == 4
\* no iteration starts at or after this clock value
MaxTime == 5
\* most PlayerMove messages a server run on its own is handed in total
MaxRecv == 3
\* args.duration of the longer client run, and the clock value at or after
\* which none of its iterations starts
LongDuration == 6
LongMaxTime == 7
\* time one transport step takes, and time the rest of an iteration takes:
\* together shorter than, equal to and longer than the period
StepTimes == {1, 2}
BodyTimes == {0, 1}
\* client identifiers the transport assigns
ClientIds == {1, 2}
\* position.x values a peer puts on the wire (server run on its own):
\* -1.0, 1.0, 2.5 and 3.0, as <<m, e>> for m * 2^e
WireX == {<<-1, 0>>, <<1, 0>>, <<5, -1>>, <<3, 0>>}

VARIABLES
    runType,            \* args.run_type: "server", "client", or "system" for both
    duration,           \* args.duration, in clock units
    \* ---- run_server locals
    sPc,                \* "loop" | "stats" | "done" | "panic"
    sNow,               \* the server's clock
    connection,         \* Option<NetworkServerConnection>: NoConn or a client id
    recv_counts,
    recv_timestamps,
    recv_sequences,
    total_ticks,
    entity_move_sent,
    sReport,            \* what the server printed after the loop
    \* ---- history of the server run (not program state)
    sConnIters,         \* iterations whose slot was present after connection events
    sSeen,              \* "no" | "during" | "after": whether the first Connect event
                        \* came out of a drain that followed a drain at or after
                        \* test_end ("after") or not ("during")
    sDrainedLate,       \* the latest drain_connections read a clock >= test_end
    sCheckedLate,       \* the latest end-of-body check read a clock >= test_end
    \* ---- run_client locals
    cPc,                \* "loop" | "stats" | "done" | "error"
    cNow,               \* the client's clock
    connected,
    sequence,
    total_sent,
    cl_recv_counts,     \* recv_counts of run_client
    recv_total,
    total_client_ticks,
    last_send,
    cReport,            \* what the client printed after the loop
    cOut,               \* the messages the latest iteration handed to the transport
    \* ---- history of the client run (not program state)
    cConnIters,         \* iterations in which the flag was set after the drain
    cCheckedLate,       \* the latest end-of-body check read a clock >= test_end
    \* ---- the transport between one client and the server
    c2s,                \* messages sent by the client, not yet drained by the server
    s2c,                \* messages sent by the server, not yet drained by the client
    connQ,              \* connection events not yet drained by the server
    clientGone,         \* the transport has reported the end of the client process
    \* ---- one sequence number on its way from the client's counter to the
    \* ---- server's record
    wire,
    \* ---- what an observer at the transport boundary saw of the latest
    \* ---- iteration of each role (not program state)
    sObs,
    cObs,
    \* ---- a transport that delivers some updates twice
    c2sCopy,            \* for each message of c2s: is it an injected second copy
    dupsRecv,           \* injected second copies the server has drained
    \* ---- the cast and the loss line worked on a short stream
    calc

sVars == <<sPc, sNow, connection, recv_counts, recv_timestamps, recv_sequences,
           total_ticks, entity_move_sent, sReport, sConnIters, sSeen, sDrainedLate,
           sCheckedLate>>

cVars == <<cPc, cNow, connected, sequence, total_sent, cl_recv_counts, recv_total,
           total_client_ticks, last_send, cReport, cOut, cConnIters, cCheckedLate>>

tVars == <<c2s, s2c, connQ, clientGone>>

oVars == <<sObs, cObs, c2sCopy, dupsRecv>>

vars == <<runType, duration, sVars, cVars, tVars, wire, oVars, calc>>

NoConn == 0
NoReport == [printed |-> FALSE]

Max(a, b) == IF a >= b THEN a ELSE b

RECURSIVE SeqsUpTo(_, _)
\* all sequences over S of length 0..n
SeqsUpTo(S, n) ==
    IF n = 0 THEN {<<>>}
    ELSE LET shorter == SeqsUpTo(S, n - 1)
         IN  shorter \cup {Append(s, x) : s \in shorter, x \in S}

(***************************************************************************)
(* Wire encoding of the sequence number                                    *)
(***************************************************************************)
RECURSIVE Pow2(_)
Pow2(n) == IF n = 0 THEN 1 ELSE 2 * Pow2(n - 1)

RECURSIVE F32Ulp(_)
\* distance between neighbouring f32 values at magnitude n
F32Ulp(n) == IF n < Pow2(F32Bits) THEN 1 ELSE 2 * F32Ulp(n \div 2)

\* `sequence as f32`: round to nearest representable value, ties to even
F32OfU64(n) ==
    LET q  == F32Ulp(n)
        lo == (n \div q) * q
        r  == n - lo
    IN  IF 2 * r < q THEN lo
        ELSE IF 2 * r > q THEN lo + q
        ELSE IF (lo \div q) % 2 = 0 THEN lo ELSE lo + q

\* f32 values as they travel in position.x: a finite value man * 2^exp, an
\* infinity (man its sign), or a NaN
F32Scaled(m, e) == [kind |-> "num", man |-> m, exp |-> e]
F32Int(n)       == F32Scaled(n, 0)
F32Inf          == [kind |-> "inf", man |-> 1, exp |-> 0]
F32NegInf       == [kind |-> "inf", man |-> -1, exp |-> 0]
F32NaN          == [kind |-> "nan", man |-> 0, exp |-> 0]

(***************************************************************************)
(* u64 and i64 values                                                      *)
(*                                                                         *)
(* A natural number is the sequence of its limbs, least significant first, *)
(* without a zero limb at the top: <<>> is 0, and a u64 has at most four   *)
(* limbs.  A signed number is a sign and a magnitude.                      *)
(***************************************************************************)
LimbBits == U64Bits \div 4
Limb     == Pow2(LimbBits)

RECURSIVE Limbs(_)
\* the limbs of a small natural number
Limbs(n) == IF n = 0 THEN <<>> ELSE <<n % Limb>> \o Limbs(n \div Limb)

LimbAt(a, i) == IF i <= Len(a) THEN a[i] ELSE 0

RECURSIVE LimbsTrim(_)
LimbsTrim(a) ==
    IF a = <<>> \/ a[Len(a)] # 0 THEN a ELSE LimbsTrim(SubSeq(a, 1, Len(a) - 1))

RECURSIVE LimbsAddFrom(_, _, _, _)
LimbsAddFrom(a, b, i, carry) ==
    IF i > Len(a) /\ i > Len(b) THEN (IF carry = 0 THEN <<>> ELSE <<carry>>)
    ELSE LET t == LimbAt(a, i) + LimbAt(b, i) + carry
         IN  <<t % Limb>> \o LimbsAddFrom(a, b, i + 1, t \div Limb)

\* a + b
LimbsAdd(a, b) == LimbsAddFrom(a, b, 1, 0)

RECURSIVE LimbsSubFrom(_, _, _, _)
LimbsSubFrom(a, b, i, borrow) ==
    IF i > Len(a) THEN <<>>
    ELSE LET t == LimbAt(a, i) - LimbAt(b, i) - borrow
         IN  IF t < 0 THEN <<t + Limb>> \o LimbsSubFrom(a, b, i + 1, 1)
             ELSE <<t>> \o LimbsSubFrom(a, b, i + 1, 0)

\* a - b, for a >= b
LimbsSub(a, b) == LimbsTrim(LimbsSubFrom(a, b, 1, 0))

RECURSIVE LimbsLessFrom(_, _, _)
LimbsLessFrom(a, b, i) ==
    IF i = 0 THEN FALSE
    ELSE IF a[i] # b[i] THEN a[i] < b[i]
    ELSE LimbsLessFrom(a, b, i - 1)

\* a < b
LimbsLess(a, b) ==
    IF Len(a) # Len(b) THEN Len(a) < Len(b) ELSE LimbsLessFrom(a, b, Len(a))

RECURSIVE LimbsShl(_, _)
\* a * 2^k
LimbsShl(a, k) ==
    IF k = 0 \/ a = <<>> THEN a
    ELSE IF k >= LimbBits THEN <<0>> \o LimbsShl(a, k - LimbBits)
    ELSE LimbsShl(LimbsAdd(a, a), k - 1)

\* 2^k
LimbsPow2(k) == LimbsShl(<<1>>, k)

\* u64::MAX
U64Max == LimbsSub(LimbsPow2(U64Bits), <<1>>)

Signed(neg, mag) == [neg |-> neg /\ mag # <<>>, mag |-> mag]

\* a small integer as a signed number
SignedOf(n) == IF n < 0 THEN Signed(TRUE, Limbs(-n)) ELSE Signed(FALSE, Limbs(n))

\* x + y
SignedAdd(x, y) ==
    IF x.neg = y.neg THEN Signed(x.neg, LimbsAdd(x.mag, y.mag))
    ELSE IF LimbsLess(x.mag, y.mag) THEN Signed(y.neg, LimbsSub(y.mag, x.mag))
    ELSE Signed(x.neg, LimbsSub(x.mag, y.mag))

\* x - y
SignedSub(x, y) == SignedAdd(x, Signed(~y.neg, y.mag))

\* 0 <= x < 2^64
InU64(x) == ~x.neg /\ LimbsLess(x.mag, LimbsPow2(U64Bits))

\* -(2^63) <= x < 2^63
InI64(x) ==
    IF x.neg THEN ~LimbsLess(LimbsPow2(U64Bits - 1), x.mag)
    ELSE LimbsLess(x.mag, LimbsPow2(U64Bits - 1))

\* the u64 a wrapping operation leaves, for -(2^64) < x < 2^65
WrapU64(x) ==
    IF InU64(x) THEN x
    ELSE IF x.neg THEN SignedAdd(x, Signed(FALSE, LimbsPow2(U64Bits)))
    ELSE SignedSub(x, Signed(FALSE, LimbsPow2(U64Bits)))

\* the i64 a wrapping operation or a cast leaves, for -(2^64) < x < 2^64
WrapI64(x) ==
    IF InI64(x) THEN x
    ELSE IF x.neg THEN SignedAdd(x, Signed(FALSE, LimbsPow2(U64Bits)))
    ELSE SignedSub(x, Signed(FALSE, LimbsPow2(U64Bits)))

RECURSIVE Halved(_, _)
\* n \div 2^k
Halved(n, k) == IF k = 0 \/ n = 0 THEN n ELSE Halved(n \div 2, k - 1)

\* `position.x as u64`: NaN gives 0, the fraction is dropped, and what lies
\* outside 0 .. u64::MAX goes to the nearer end
U64OfF32(f) ==
    IF f.kind = "nan" THEN <<>>
    ELSE IF f.kind = "inf" THEN (IF f.man > 0 THEN U64Max ELSE <<>>)
    ELSE IF f.man <= 0 THEN <<>>
    ELSE IF f.exp < 0 THEN Limbs(Halved(f.man, -f.exp))
    ELSE LET t == LimbsShl(Limbs(f.man), f.exp)
         IN  IF LimbsLess(t, LimbsPow2(U64Bits)) THEN t ELSE U64Max

(***************************************************************************)
(* Messages                                                                *)
(***************************************************************************)
\* the x field of a message that carries no position
NoPosition == F32Int(0)

\* a PlayerMove whose position.x is the f32 value f
PlayerMoveF(f)  == [type |-> "PlayerMove", x |-> f]
\* a PlayerMove whose position.x is the whole number n
PlayerMove(n)   == PlayerMoveF(F32Int(n))
ConnectionInfo  == [type |-> "ConnectionInfo", x |-> NoPosition]
OtherClientMsg  == [type |-> "Other", x |-> NoPosition]

AllowConnection == [type |-> "AllowConnection", x |-> NoPosition]
EntityMove(x)   == [type |-> "EntityMove", x |-> x]
OtherServerMsg  == [type |-> "Other", x |-> NoPosition]

Connect(id)     == [kind |-> "Connect", id |-> id]
Disconnect(id)  == [kind |-> "Disconnect", id |-> id]

(***************************************************************************)
(* run_server: one iteration of the loop                                   *)
(***************************************************************************)
\* test_end = Instant::now() + Duration::from_secs(args.duration), on a clock
\* whose origin is the start of the role
TestEnd == duration

ConnEvents == {Connect(i) : i \in ClientIds} \cup {Disconnect(i) : i \in ClientIds}
\* what one drain_connections() can yield
EventBatches == SeqsUpTo(ConnEvents, 2)
ClientMsgs ==
    {PlayerMoveF(F32Scaled(x[1], x[2])) : x \in WireX} \cup {ConnectionInfo, OtherClientMsg}
\* what one drain_client_messages() can yield
ClientDrains == SeqsUpTo(ClientMsgs, 2)

RECURSIVE ConnAfterKeep(_, _)
\* a slot that keeps the connection it holds when another peer connects
ConnAfterKeep(slot, evs) ==
    IF evs = <<>> THEN slot
    ELSE ConnAfterKeep(IF Head(evs).kind = "Connect"
                       THEN (IF slot = NoConn THEN Head(evs).id ELSE slot)
                       ELSE NoConn,
                       Tail(evs))

RECURSIVE ConnAfterById(_, _)
\* a slot that a Disconnect event clears only when it names the peer in it
ConnAfterById(slot, evs) ==
    IF evs = <<>> THEN slot
    ELSE ConnAfterById(IF Head(evs).kind = "Connect" THEN Head(evs).id
                       ELSE IF Head(evs).id = slot THEN NoConn ELSE slot,
                       Tail(evs))

RECURSIVE ConnAfter(_, _)
\* the slot after the connection events of one drain, taken in order
ConnAfter(slot, evs) ==
    IF evs = <<>> THEN slot
    ELSE ConnAfter(IF Head(evs).kind = "Connect" THEN Head(evs).id ELSE NoConn,
                   Tail(evs))

HasConnect(evs) == \E i \in 1..Len(evs) : evs[i].kind = "Connect"

\* the PlayerMove messages of one drain, in receipt order
MovesOf(msgs) == SelectSeq(msgs, LAMBDA m : m.type = "PlayerMove")

\* let seq = position.x as u64, for each PlayerMove of the drain
SequencesOf(msgs) ==
    LET moves == MovesOf(msgs)
    IN  [i \in 1..Len(moves) |-> U64OfF32(moves[i].x)]

\* recv_timestamps.push(now), once for each PlayerMove of the drain
StampsOf(msgs, now) == [i \in 1..Len(MovesOf(msgs)) |-> now]

\* a tick that is recorded but not counted
CountTickLost(t) == t

\* total_ticks += 1
CountTick(t) == t + 1

\* recv_counts.push(count_this_tick as usize)
PushCount(counts, c) == Append(counts, c)

\* Instant::now() >= test_end && connection.is_some()
ServerExit(now, conn) == now >= TestEnd /\ conn # NoConn

\* a loop that never sleeps
NextStartNoSleep(tickStart, elapsed, period) == tickStart + elapsed

\* the clock at the start of the next iteration: sleep for the remainder of
\* the period when the iteration took less than the period
NextStart(tickStart, elapsed, period) ==
    IF elapsed < period THEN tickStart + elapsed + (period - elapsed)
    ELSE tickStart + elapsed

ServerIter(errs, evs, msgs, dStep, dBody) ==
    LET tick_start == sNow
        conn1      == ConnAfter(connection, evs)
        now        == tick_start + dStep
        tCheck     == now + dBody
    IN  /\ sPc = "loop"
        /\ connection' = conn1
        /\ IF conn1 # NoConn
           THEN /\ recv_timestamps' = recv_timestamps \o StampsOf(msgs, now)
                /\ recv_sequences' = recv_sequences \o SequencesOf(msgs)
                /\ entity_move_sent' = entity_move_sent + Len(MovesOf(msgs))
                /\ recv_counts' = PushCount(recv_counts, Len(MovesOf(msgs)))
                /\ total_ticks' = CountTick(total_ticks)
           ELSE UNCHANGED <<recv_timestamps, recv_sequences, entity_move_sent,
                            recv_counts, total_ticks>>
        /\ IF ServerExit(tCheck, conn1)
           THEN sPc' = "stats" /\ sNow' = tCheck
           ELSE sPc' = "loop" /\ sNow' = NextStart(tick_start, dStep + dBody, TickDur)
        /\ sConnIters' = IF conn1 # NoConn THEN sConnIters + 1 ELSE sConnIters
        /\ sSeen' = IF sSeen = "no" /\ HasConnect(evs)
                    THEN (IF sDrainedLate THEN "after" ELSE "during")
                    ELSE sSeen
        /\ sDrainedLate' = (now >= TestEnd)
        /\ sCheckedLate' = (tCheck >= TestEnd)
        /\ UNCHANGED sReport

\* One iteration of the server loop on whatever the transport hands over.
ServerTick ==
    /\ runType = "server"
    /\ sNow < MaxTime
    /\ \E errs \in 0..1, evs \in EventBatches,
          dStep \in StepTimes, dBody \in BodyTimes :
          \E msgs \in (IF ConnAfter(connection, evs) # NoConn
                       THEN ClientDrains ELSE {<<>>}) :
             /\ Len(recv_sequences) + Len(MovesOf(msgs)) <= MaxRecv
             /\ ServerIter(errs, evs, msgs, dStep, dBody)
    /\ UNCHANGED <<runType, duration, calc, cVars, tVars, wire, oVars>>

(***************************************************************************)
(* Statistics derived after the loop                                       *)
(***************************************************************************)
RECURSIVE BumpUnordered(_, _)
\* the same count on a map that keeps its keys in insertion order
BumpUnordered(d, c) ==
    IF d = <<>> THEN <<[msgs |-> c, ticks |-> 0 + 1]>>
    ELSE IF Head(d).msgs = c THEN <<[msgs |-> c, ticks |-> Head(d).ticks + 1]>> \o Tail(d)
    ELSE <<Head(d)>> \o BumpUnordered(Tail(d), c)

RECURSIVE Bump(_, _)
\* *distribution.entry(count).or_insert(0) += 1, on a BTreeMap held as the
\* sequence of its (msgs, ticks) entries in key order
Bump(d, c) ==
    IF d = <<>> THEN <<[msgs |-> c, ticks |-> 0 + 1]>>
    ELSE IF Head(d).msgs = c THEN <<[msgs |-> c, ticks |-> Head(d).ticks + 1]>> \o Tail(d)
    ELSE IF Head(d).msgs > c THEN <<[msgs |-> c, ticks |-> 0 + 1]>> \o d
    ELSE <<Head(d)>> \o Bump(Tail(d), c)

RECURSIVE DistributionOf(_)
\* for &count in &recv_counts { ... }
DistributionOf(counts) ==
    IF counts = <<>> THEN <<>>
    ELSE Bump(DistributionOf(SubSeq(counts, 1, Len(counts) - 1)), counts[Len(counts)])

\* recv_counts.iter().filter(|&&c| c > 1).count()
BatchedTicks(counts) == Cardinality({i \in DOMAIN counts : counts[i] > 1})

\* recv_counts.iter().filter(|&&c| c == 0).count()
EmptyTicks(counts) == Cardinality({i \in DOMAIN counts : counts[i] = 0})

\* recv_counts.iter().max()
MaxBatchOf(counts) ==
    CHOOSE m \in {counts[i] : i \in DOMAIN counts} :
        \A i \in DOMAIN counts : counts[i] <= m

\* a comparison that lets a repeated sequence number pass
IsOutOfOrderStrict(prev, cur) == LimbsLess(cur, prev)

\* if recv_sequences[i] <= recv_sequences[i - 1]
IsOutOfOrder(prev, cur) == ~LimbsLess(prev, cur)

RECURSIVE OutOfOrderFrom(_, _)
OutOfOrderFrom(seqs, i) ==
    IF i > Len(seqs) THEN 0
    ELSE (IF IsOutOfOrder(seqs[i - 1], seqs[i]) THEN 1 ELSE 0) + OutOfOrderFrom(seqs, i + 1)

\* for i in 1..recv_sequences.len() { ... }   (0-based there, 1-based here)
OutOfOrder(seqs) == OutOfOrderFrom(seqs, 2)

\* last - first + 1, on u64 without overflow checks
ExpectedOf(first, last) ==
    LET span == WrapU64(SignedSub(Signed(FALSE, last), Signed(FALSE, first)))
    IN  WrapU64(SignedAdd(span, SignedOf(1)))

\* The "Sequence range" line, for a build with or without overflow checks.
\*   last - first       leaves u64 when last < first, and then
\*   ... + 1            leaves it when the difference is u64::MAX: a panic
\*                      with checks, a wrap without;
\*   expected as i64    never panics: 2^63 or more comes out 2^64 smaller;
\*   ... - len as i64   leaves i64 below -(2^63): a panic with checks, a wrap
\*                      without.
\* status is "ok" when no operation left its range, whatever the cast did;
\* `expected` and `lost` are the numbers printed.
LossLine(seqs, overflowChecks) ==
    IF seqs = <<>> THEN [status |-> "none"]
    ELSE LET first    == Signed(FALSE, seqs[1])
             last     == Signed(FALSE, seqs[Len(seqs)])
             span     == SignedSub(last, first)
             plusOne  == SignedAdd(WrapU64(span), SignedOf(1))
             over207  == ~InU64(span) \/ ~InU64(plusOne)
             expected == ExpectedOf(seqs[1], seqs[Len(seqs)])
             \* expected as i64
             cast     == WrapI64(expected)
             diff     == SignedSub(cast, SignedOf(Len(seqs)))
             over208  == ~InI64(diff)
             lost     == WrapI64(diff)
         IN  IF over207 /\ overflowChecks THEN [status |-> "panic", at |-> 207]
             ELSE IF over208 /\ overflowChecks THEN [status |-> "panic", at |-> 208]
             ELSE [status   |-> IF over207 \/ over208 THEN "wrapped" ELSE "ok",
                   expected |-> expected.mag,
                   cast     |-> cast,
                   \* lost.max(0)
                   lost     |-> IF lost.neg THEN SignedOf(0) ELSE lost]

\* what run_server prints up to and including the "Sequence range" line
ReportHead(loss) ==
    [printed      |-> TRUE,
     noData       |-> FALSE,
     distribution |-> DistributionOf(recv_counts),
     denominator  |-> total_ticks,
     batched      |-> BatchedTicks(recv_counts),
     empty        |-> EmptyTicks(recv_counts),
     percentages  |-> Len(DistributionOf(recv_counts)) + 2,
     out_of_order |-> OutOfOrder(recv_sequences),
     loss         |-> loss]

\* what run_server prints after the loop; a panic in the "Sequence range"
\* line ends the function there, before the "Max messages" line
ServerReport(overflowChecks) ==
    IF recv_counts = <<>>
    THEN [printed |-> TRUE, noData |-> TRUE, percentages |-> 0]
    ELSE LET loss == LossLine(recv_sequences, overflowChecks)
             head == ReportHead(loss)
         IN  IF loss.status = "panic" THEN head
             ELSE [printed      |-> head.printed,
                   noData       |-> head.noData,
                   distribution |-> head.distribution,
                   denominator  |-> head.denominator,
                   batched      |-> head.batched,
                   empty        |-> head.empty,
                   percentages  |-> head.percentages,
                   out_of_order |-> head.out_of_order,
                   loss         |-> head.loss,
                   max_batch    |-> MaxBatchOf(recv_counts)]

\* The code after the server loop, in a build with or without overflow checks.
ServerStats ==
    /\ runType \in {"server", "system"}
    /\ sPc = "stats"
    /\ \E overflowChecks \in BOOLEAN :
          /\ sReport' = ServerReport(overflowChecks)
          /\ sPc' = IF ~sReport'.noData /\ sReport'.loss.status = "panic"
                    THEN "panic" ELSE "done"
    /\ UNCHANGED <<runType, duration, calc, sNow, connection, recv_counts, recv_timestamps,
                   recv_sequences, total_ticks, entity_move_sent, sConnIters,
                   sSeen, sDrainedLate, sCheckedLate, cVars, tVars, wire, oVars>>

(***************************************************************************)
(* run_client: one iteration of the loop, and the report                   *)
(***************************************************************************)
ServerMsgs == {AllowConnection, EntityMove(F32Int(0)), OtherServerMsg}
\* what one iter_server_messages() can yield
ServerDrains == SeqsUpTo(ServerMsgs, 2)

AllowsOf(msgs) == SelectSeq(msgs, LAMBDA m : m.type = "AllowConnection")
EchoesOf(msgs) == SelectSeq(msgs, LAMBDA m : m.type = "EntityMove")

\* tick_start.duration_since(last_send): zero when last_send is the later one
DurationSince(later, earlier) == IF later >= earlier THEN later - earlier ELSE 0

\* an update goes out in every iteration
SendDueAlways(tickStart, lastSend) == TRUE

\* tick_start.duration_since(last_send) >= send_interval
SendDue(tickStart, lastSend) == DurationSince(tickStart, lastSend) >= SendInterval

\* an update goes out whenever the interval has passed, connected or not
MaySendUngated(conn, tickStart, lastSend) == SendDue(tickStart, lastSend)

\* if connected { ... if tick_start.duration_since(last_send) >= send_interval
MaySend(conn, tickStart, lastSend) == conn /\ SendDue(tickStart, lastSend)

\* a client that logs its errors and goes on
ClientFatalNever(errs) == FALSE

\* for error in client.iter_errors() { log; return; }
ClientFatal(errs) == errs > 0

\* sequence += 1
NextSequence(n) == n + 1

\* total_client_ticks += 1
CountClientTick(t) == t + 1

\* Instant::now() >= test_end && connected
ClientExit(now, conn) == now >= TestEnd /\ conn

\* the PlayerMove built from the counter: position.x = sequence as f32
MoveOf(n) == PlayerMove(F32OfU64(n))

ClientIter(errs, msgs, dStep, dBody) ==
    LET tick_start == cNow
        now        == tick_start + dStep
        tCheck     == now + dBody
        allowed    == AllowsOf(msgs) # <<>>
        conn1      == connected \/ allowed
        last1      == IF allowed THEN now ELSE last_send
        hello      == [i \in 1..Len(AllowsOf(msgs)) |-> ConnectionInfo]
        due        == MaySend(conn1, tick_start, last1)
    IN  /\ cPc = "loop"
        /\ IF ClientFatal(errs)
           THEN \* the first error ends run_client before anything is drained
                /\ cPc' = "error"
                /\ cNow' = now
                /\ cOut' = <<>>
                /\ UNCHANGED <<connected, sequence, total_sent, cl_recv_counts,
                               recv_total, total_client_ticks, last_send,
                               cConnIters, cCheckedLate>>
           ELSE /\ connected' = conn1
                /\ recv_total' = recv_total + Len(EchoesOf(msgs))
                /\ IF conn1
                   THEN /\ cl_recv_counts' = PushCount(cl_recv_counts, Len(EchoesOf(msgs)))
                        /\ total_client_ticks' = CountClientTick(total_client_ticks)
                   ELSE UNCHANGED <<cl_recv_counts, total_client_ticks>>
                /\ IF due
                   THEN /\ sequence' = NextSequence(sequence)
                        /\ total_sent' = total_sent + 1
                        /\ last_send' = tick_start
                        /\ cOut' = hello \o <<MoveOf(sequence')>>
                   ELSE /\ UNCHANGED <<sequence, total_sent>>
                        /\ last_send' = last1
                        /\ cOut' = hello
                /\ IF ClientExit(tCheck, conn1)
                   THEN cPc' = "stats" /\ cNow' = tCheck
                   ELSE cPc' = "loop"
                        /\ cNow' = NextStart(tick_start, dStep + dBody, StepInterval)
                /\ cConnIters' = IF conn1 THEN cConnIters + 1 ELSE cConnIters
                /\ cCheckedLate' = (tCheck >= TestEnd)
        /\ UNCHANGED cReport

\* One iteration of the client loop on whatever the transport hands over.
ClientTick ==
    /\ runType = "client"
    /\ cNow < MaxTime
    /\ \E errs \in 0..1, msgs \in ServerDrains, dStep \in StepTimes, dBody \in BodyTimes :
          ClientIter(errs, msgs, dStep, dBody)
    /\ UNCHANGED <<runType, duration, calc, sVars, tVars, wire, oVars>>

\* let lost = total_sent as i64 - recv_total as i64; lost.max(0)
ClientLoss(sent, received) == Max(sent - received, 0)

\* what run_client prints after the loop
ClientReport ==
    [printed      |-> TRUE,
     hasTable     |-> cl_recv_counts # <<>>,
     distribution |-> DistributionOf(cl_recv_counts),
     denominator  |-> total_client_ticks,
     batched      |-> BatchedTicks(cl_recv_counts),
     lost         |-> ClientLoss(total_sent, recv_total),
     lossOf       |-> total_sent]

\* The code after the client loop.
ClientStats ==
    /\ runType \in {"client", "system"}
    /\ cPc = "stats"
    /\ cReport' = ClientReport
    /\ cPc' = "done"
    /\ UNCHANGED <<runType, duration, calc, sVars, cNow, connected, sequence, total_sent,
                   cl_recv_counts, recv_total, total_client_ticks, last_send, cOut,
                   cConnIters, cCheckedLate, tVars, wire, oVars>>

InitClient ==
    /\ cPc = "loop"
    /\ cNow = 0
    /\ connected = FALSE
    /\ sequence = 0
    /\ total_sent = 0
    /\ cl_recv_counts = <<>>
    /\ recv_total = 0
    /\ total_client_ticks = 0
    /\ last_send = 0
    /\ cReport = NoReport
    /\ cOut = <<>>
    /\ cConnIters = 0
    /\ cCheckedLate = FALSE

InitServer ==
    /\ sPc = "loop"
    /\ sNow = 0
    /\ connection = NoConn
    /\ recv_counts = <<>>
    /\ recv_timestamps = <<>>
    /\ recv_sequences = <<>>
    /\ total_ticks = 0
    /\ entity_move_sent = 0
    /\ sReport = NoReport
    /\ sConnIters = 0
    /\ sSeen = "no"
    /\ sDrainedLate = FALSE
    /\ sCheckedLate = FALSE

InitTransport ==
    /\ c2s = <<>>
    /\ s2c = <<>>
    /\ connQ = <<>>
    /\ clientGone = FALSE

\* no stream is being put through the cast and the "Sequence range" line
NoCalc == [stage |-> "none"]

\* no connection event has been drained yet
NoEvent == [kind |-> "None", id |-> NoConn]

\* the last event of the batch evs, or `last` when the batch is empty
LastEvent(last, evs) == IF evs = <<>> THEN last ELSE evs[Len(evs)]

\* nothing has been observed yet
NoServerObs ==
    [seen |-> FALSE, start |-> 0, elapsed |-> 0, errs |-> 0, evs |-> <<>>,
     last |-> NoEvent, msgs |-> <<>>, before |-> NoConn, out |-> <<>>,
     acked |-> {}]

NoClientObs ==
    [seen |-> FALSE, start |-> 0, elapsed |-> 0, errs |-> 0, msgs |-> <<>>,
     ackAt |-> -1, sendAt |-> -1, acks |-> 0, hellos |-> 0]

InitObs ==
    /\ sObs = NoServerObs
    /\ cObs = NoClientObs
    /\ c2sCopy = <<>>
    /\ dupsRecv = 0

IdleWire == [stage |-> "idle", k |-> 0, x |-> F32Int(0), seq |-> Limbs(0)]

\* main: run_server when args.run_type is "server", run_client otherwise
Init ==
    /\ runType \in {"server", "client"}
    /\ InitServer
    /\ InitClient
    /\ InitTransport
    /\ wire = IdleWire
    /\ InitObs
    /\ duration = Duration
    /\ calc = NoCalc

Next ==
    \/ ServerTick
    \/ ServerStats
    \/ ClientTick
    \/ ClientStats

Spec == Init /\ [][Next]_vars

(***************************************************************************)
(* One client and one server over a transport that neither loses,          *)
(* duplicates nor reorders: a FIFO queue in each direction.  A drain takes *)
(* what has arrived, some prefix of the queue.                             *)
(***************************************************************************)
ConnectsOf(evs) == SelectSeq(evs, LAMBDA e : e.kind = "Connect")

\* what one server iteration sends: AllowConnection for each Connect event,
\* then one EntityMove with the received position for each PlayerMove
ServerSends(evs, msgs) ==
    [i \in 1..Len(ConnectsOf(evs)) |-> AllowConnection]
        \o [i \in 1..Len(MovesOf(msgs)) |-> EntityMove(MovesOf(msgs)[i].x)]

Rest(q, k) == SubSeq(q, k + 1, Len(q))

SysServerTick ==
    /\ runType = "system"
    /\ sNow < MaxTime
    /\ \E ke \in 0..Len(connQ), dStep \in StepTimes, dBody \in BodyTimes :
          LET evs == SubSeq(connQ, 1, ke)
          IN  \E km \in (IF ConnAfter(connection, evs) # NoConn
                         THEN 0..Len(c2s) ELSE {0}) :
                 LET msgs == SubSeq(c2s, 1, km)
                 IN  /\ ServerIter(0, evs, msgs, dStep, dBody)
                     /\ connQ' = Rest(connQ, ke)
                     /\ c2s' = Rest(c2s, km)
                     /\ s2c' = s2c \o ServerSends(evs, msgs)
    /\ UNCHANGED <<runType, duration, calc, cVars, clientGone, wire, oVars>>

SysClientTick ==
    /\ runType = "system"
    /\ cNow < MaxTime
    /\ \E km \in 0..Len(s2c), dStep \in StepTimes, dBody \in BodyTimes :
          /\ ClientIter(0, SubSeq(s2c, 1, km), dStep, dBody)
          /\ s2c' = Rest(s2c, km)
          /\ c2s' = c2s \o cOut'
    /\ UNCHANGED <<runType, duration, calc, sVars, connQ, clientGone, wire, oVars>>

\* the client process has ended: the server's transport reports a Disconnect
ClientLeaves ==
    /\ runType = "system"
    /\ cPc = "done"
    /\ ~clientGone
    /\ clientGone' = TRUE
    /\ connQ' = Append(connQ, Disconnect(1))
    /\ UNCHANGED <<runType, duration, calc, sVars, cVars, c2s, s2c, wire, oVars>>

\* NetworkClient::new has connected before run_client enters its loop
InitSystem ==
    /\ runType = "system"
    /\ InitServer
    /\ InitClient
    /\ c2s = <<>>
    /\ s2c = <<>>
    /\ connQ = <<Connect(1)>>
    /\ clientGone = FALSE
    /\ wire = IdleWire
    /\ InitObs
    /\ duration = Duration
    /\ calc = NoCalc

SysNext ==
    \/ SysServerTick
    \/ SysClientTick
    \/ ServerStats
    \/ ClientStats
    \/ ClientLeaves

SpecSystem == InitSystem /\ [][SysNext]_vars

\* The same system observed from the instant at which the client has sent
\* LongRunSent updates and all of them have been echoed and drained.
\* sequence, total_sent and recv_total hold their values at that instant; the
\* clocks are read from that instant, and the vectors, total_ticks,
\* total_client_ticks and entity_move_sent hold what is recorded from that
\* instant on.
LongRunSent == Pow2(F32Bits) - 1

InitLongRun ==
    /\ runType = "system"
    /\ sPc = "loop" /\ sNow = 0 /\ connection = 1
    /\ recv_counts = <<>> /\ recv_timestamps = <<>> /\ recv_sequences = <<>>
    /\ total_ticks = 0 /\ entity_move_sent = 0 /\ sReport = NoReport
    /\ sConnIters = 0 /\ sSeen = "during" /\ sDrainedLate = FALSE
    /\ sCheckedLate = FALSE
    /\ cPc = "loop" /\ cNow = 0 /\ connected = TRUE
    /\ sequence = LongRunSent /\ total_sent = LongRunSent
    /\ cl_recv_counts = <<>> /\ recv_total = LongRunSent /\ total_client_ticks = 0
    /\ last_send = 0 /\ cReport = NoReport /\ cOut = <<>>
    /\ cConnIters = 0 /\ cCheckedLate = FALSE
    /\ c2s = <<>> /\ s2c = <<>> /\ connQ = <<>> /\ clientGone = FALSE
    /\ wire = IdleWire
    /\ InitObs
    /\ duration = Duration
    /\ calc = NoCalc

SpecLongRun == InitLongRun /\ [][SysNext]_vars

(***************************************************************************)
(* The sequence number of one update, from the client's counter through    *)
(* position.x to the server's record                                       *)
(***************************************************************************)
\* counter values at which an update is sent
EncodeInputs ==
    (1..40) \cup ((Pow2(F32Bits) - 20)..(Pow2(F32Bits) + 20))

\* the client builds the PlayerMove of counter value k
EncodeMove ==
    /\ wire.stage = "idle"
    /\ wire' = [wire EXCEPT !.stage = "sent", !.x = MoveOf(wire.k).x]
    /\ UNCHANGED <<runType, duration, calc, sVars, cVars, tVars, oVars>>

\* the server reads the sequence number out of the PlayerMove
DecodeMove ==
    /\ wire.stage = "sent"
    /\ wire' = [wire EXCEPT !.stage = "received",
                            !.seq = SequencesOf(<<PlayerMoveF(wire.x)>>)[1]]
    /\ UNCHANGED <<runType, duration, calc, sVars, cVars, tVars, oVars>>

InitEncode ==
    /\ runType = "client"
    /\ InitServer
    /\ InitClient
    /\ InitTransport
    /\ InitObs
    /\ duration = Duration
    /\ calc = NoCalc
    /\ wire \in {[stage |-> "idle", k |-> n, x |-> F32Int(0), seq |-> Limbs(0)] : n \in EncodeInputs}

EncodeNext ==
    \/ EncodeMove
    \/ DecodeMove

SpecEncode == InitEncode /\ [][EncodeNext]_vars

(***************************************************************************)
(* The cast `position.x as u64` and the "Sequence range" line on streams   *)
(* of one or two PlayerMoves whose position.x lies anywhere in f32: at     *)
(* both ends and in the middle of u64, beyond it, and not a number         *)
(***************************************************************************)
\* position.x values of the PlayerMoves of a short run: -1, 0, 1, 2, 1.5,
\* the f32 values next to 2^63 and next to 2^64, 1.0e30, the infinities, NaN
WideWire ==
    {F32Int(n) : n \in {-1, 0, 1, 2}}
        \cup {F32Scaled(3, -1),
              F32Scaled(Pow2(F32Bits) - 1, U64Bits - 1 - F32Bits),
              F32Scaled(1, U64Bits - 1),
              F32Scaled(Pow2(F32Bits - 1) + 1, U64Bits - F32Bits),
              F32Scaled(Pow2(F32Bits) - 1, U64Bits - F32Bits),
              F32Scaled(1, U64Bits),
              F32Scaled(13234890, 76),
              F32Inf, F32NegInf, F32NaN}

WideRuns == SeqsUpTo(WideWire, 2) \ {<<>>}

\* let seq = position.x as u64; recv_sequences.push(seq), for each PlayerMove
WideRecord ==
    /\ calc.stage = "received"
    /\ calc' = [calc EXCEPT !.stage = "recorded",
                            !.seqs = [i \in 1..Len(calc.xs) |-> U64OfF32(calc.xs[i])]]
    /\ UNCHANGED <<runType, duration, sVars, cVars, tVars, wire, oVars>>

\* the "Sequence range" line of the report
WideReport ==
    /\ calc.stage = "recorded"
    /\ calc' = [calc EXCEPT !.stage = "reported",
                            !.loss = LossLine(calc.seqs, calc.checks)]
    /\ UNCHANGED <<runType, duration, sVars, cVars, tVars, wire, oVars>>

InitWide ==
    /\ runType = "server"
    /\ duration = Duration
    /\ InitServer
    /\ InitClient
    /\ InitTransport
    /\ InitObs
    /\ wire = IdleWire
    /\ calc \in {[stage |-> "received", xs |-> xs, checks |-> b, seqs |-> <<>>,
                   loss |-> [status |-> "none"]] :
                     xs \in WideRuns, b \in BOOLEAN}

WideNext ==
    \/ WideRecord
    \/ WideReport

SpecWide == InitWide /\ [][WideNext]_vars

(***************************************************************************)
(* Properties                                                              *)
(***************************************************************************)
ServerPrinted == sReport.printed
ClientPrinted == cReport.printed

\* every earlier element is smaller than every later one
StrictlyIncreasing(seqs) ==
    \A i \in DOMAIN seqs : \A j \in DOMAIN seqs :
        i < j => LimbsLess(seqs[i], seqs[j])

RECURSIVE SumTicks(_)
SumTicks(d) == IF d = <<>> THEN 0 ELSE Head(d).ticks + SumTicks(Tail(d))

\* C1: on each role the Per-Tick Counts have exactly one entry for each
\* iteration in which the connection was active when the message phase ran,
\* and that number is the role's connected-tick counter.
C1_TicksCounted ==
    /\ Len(recv_counts) = total_ticks
    /\ total_ticks = sConnIters
    /\ Len(cl_recv_counts) = total_client_ticks
    /\ total_client_ticks = cConnIters

\* a server run with a tick that was not counted (no connection), two that
\* were, one of them without any message
C1_Witness ==
    /\ runType = "server"
    /\ connection = NoConn
    /\ total_ticks = 2
    /\ \E i \in DOMAIN recv_counts : recv_counts[i] = 0
    /\ \E i \in DOMAIN recv_counts : recv_counts[i] > 0

\* C3: for a non-empty received-sequence stream the reported out-of-order
\* count is 0 exactly when the stream is strictly increasing.
C3_OrderCount ==
    (ServerPrinted /\ ~sReport.noData /\ recv_sequences # <<>>)
        => (sReport.out_of_order = 0 <=> StrictlyIncreasing(recv_sequences))

C3_Witness ==
    /\ ServerPrinted /\ ~sReport.noData
    /\ Len(recv_sequences) >= 3
    /\ sReport.out_of_order = 0

\* (last - first + 1) - count, as a number
LossOf(seqs) ==
    SignedSub(SignedAdd(SignedSub(Signed(FALSE, seqs[Len(seqs)]),
                                  Signed(FALSE, seqs[1])),
                        SignedOf(1)),
              SignedOf(Len(seqs)))

\* For a non-empty strictly increasing stream whose sequence numbers lie
\* less than 2^63 - 1 apart the reported loss is (last - first + 1) - count,
\* and it is not negative.
C4_LossOfIncreasing ==
    (ServerPrinted /\ ~sReport.noData /\ recv_sequences # <<>>
        /\ StrictlyIncreasing(recv_sequences))
        => /\ sReport.loss.status = "ok"
           /\ sReport.loss.lost = LossOf(recv_sequences)
           /\ ~sReport.loss.lost.neg

C4_Witness ==
    /\ ServerPrinted /\ ~sReport.noData
    /\ Len(recv_sequences) >= 2
    /\ StrictlyIncreasing(recv_sequences)
    /\ sReport.loss.lost # SignedOf(0)

\* C4: for every non-empty strictly increasing stream, whatever the distance
\* between its first and its last sequence number, the reported loss is
\* (last - first + 1) - count, and it is not negative.
C4_LossOfAnyIncreasing ==
    (calc.stage = "reported" /\ calc.seqs # <<>> /\ StrictlyIncreasing(calc.seqs))
        => /\ calc.loss.status = "ok"
           /\ calc.loss.lost = LossOf(calc.seqs)
           /\ ~calc.loss.lost.neg

\* C5: for every non-empty stream, also one whose last sequence number is
\* smaller than its first, the loss computation stays inside the machine
\* integers and reports a loss >= 0.
C5_LossNeverLeavesRange ==
    (sPc \in {"done", "panic"} /\ recv_sequences # <<>>)
        => /\ sReport.loss.status = "ok"
           /\ ~sReport.loss.lost.neg

\* the entries of d are the counts occurring in `counts`, in ascending key
\* order, each with the number of ticks that had that count, and the tick
\* numbers add up to the denominator of the percentages
DistributionOk(d, counts, denominator) ==
    /\ \A i \in 1..(Len(d) - 1) : d[i].msgs < d[i + 1].msgs
    /\ \A i \in DOMAIN d :
          d[i].ticks = Cardinality({j \in DOMAIN counts : counts[j] = d[i].msgs})
    /\ \A j \in DOMAIN counts : \E i \in DOMAIN d : d[i].msgs = counts[j]
    /\ SumTicks(d) = denominator

\* C6: in either role's report the distribution maps each occurring count to
\* the number of ticks with that count, in ascending key order, and the tick
\* numbers sum to the total connected ticks the percentages are taken of.
C6_Distribution ==
    /\ (ServerPrinted /\ ~sReport.noData)
          => DistributionOk(sReport.distribution, recv_counts, sReport.denominator)
    /\ (ClientPrinted /\ cReport.hasTable)
          => DistributionOk(cReport.distribution, cl_recv_counts, cReport.denominator)

\* a server report over three ticks with two different counts, the smaller
\* count recorded after the larger one
C6_Witness ==
    /\ ServerPrinted /\ ~sReport.noData
    /\ Len(sReport.distribution) = 2
    /\ sReport.denominator = 3
    /\ recv_counts[1] > recv_counts[2]

\* C7: for both roles the loop ends at the first end-of-body check at or
\* after test_end once a connection has been observed in this or an earlier
\* iteration, still connected or not, and never before test_end.
C7_ExitOnceObserved ==
    /\ (sPc = "loop" /\ sConnIters > 0) => ~sCheckedLate
    /\ sPc # "loop" => sCheckedLate
    /\ (cPc = "loop" /\ cConnIters > 0) => ~cCheckedLate
    /\ cPc \in {"stats", "done"} => cCheckedLate

\* C8: a server run in which no client connects during the whole test
\* duration ends with the report "No data received." and no percentage.
C8_NoClientNoData ==
    (sPc \in {"done", "panic"} /\ sSeen # "during")
        => (sReport.noData /\ sReport.percentages = 0)

\* C9: a server run that had a connection but never received a
\* SequencedUpdate reports "No data received." and no percentage.
C9_NoMessagesNoData ==
    (sPc \in {"done", "panic"} /\ sConnIters > 0 /\ recv_sequences = <<>>)
        => (sReport.noData /\ sReport.percentages = 0)

\* C2: the k-th SequencedUpdate the client sends carries sequence number k:
\* the number the server reads out of the update built from counter value k
\* is k.
C2_CarriesOwnNumber ==
    wire.stage = "received" => wire.seq = Limbs(wire.k)

\* C10: with one client and one server over a transport that neither loses,
\* duplicates nor reorders, the server's received stream is strictly
\* increasing (out-of-order count 0), the client has received no more echoes
\* than it has sent updates, and the client's loss estimate is >= 0.
C10_LosslessRun ==
    /\ StrictlyIncreasing(recv_sequences)
    /\ OutOfOrder(recv_sequences) = 0
    /\ recv_total <= total_sent
    /\ ClientLoss(total_sent, recv_total) >= 0

(***************************************************************************)
(* Either role on arbitrary transport input, with the latest iteration     *)
(* observed at the transport boundary: what the transport yielded, what    *)
(* the role handed to it, and the clock readings of the iteration          *)
(***************************************************************************)
\* what one drain_connections() yields in an observed run
ObsEventBatches ==
    {<<>>, <<Connect(1)>>, <<Connect(2)>>, <<Disconnect(1)>>, <<Disconnect(2)>>,
     <<Connect(1), Connect(2)>>, <<Connect(1), Disconnect(1)>>,
     <<Connect(2), Disconnect(1)>>, <<Disconnect(1), Connect(2)>>}
\* what one drain_client_messages() yields in an observed run
ObsDrains ==
    {<<>>, <<PlayerMove(1)>>, <<PlayerMove(2)>>, <<ConnectionInfo>>,
     <<OtherClientMsg>>, <<PlayerMove(2), PlayerMove(1)>>,
     <<PlayerMove(1), ConnectionInfo>>, <<OtherClientMsg, PlayerMove(2)>>}
\* how many errors one drain_errors() / iter_errors() yields
ObsErrors == {0, 1, 2}

\* a server that acknowledges connections but echoes nothing
ServerOutboxMute(evs, slot, msgs) ==
    LET joins == ConnectsOf(evs)
    IN  [i \in 1..Len(joins) |->
            [to |-> joins[i].id, class |-> "ReliableOrdered", msg |-> AllowConnection]]

\* conn.send_message(ReliableOrdered, AllowConnection) for each Connect event,
\* then conn.send_message(Unreliable, EntityMove { position, .. }) for each
\* PlayerMove drained from the connection in the slot
ServerOutbox(evs, slot, msgs) ==
    LET joins == ConnectsOf(evs)
        moves == MovesOf(msgs)
    IN  [i \in 1..Len(joins) |->
            [to |-> joins[i].id, class |-> "ReliableOrdered", msg |-> AllowConnection]]
        \o (IF slot = NoConn THEN <<>>
            ELSE [i \in 1..Len(moves) |->
                    [to |-> slot, class |-> "Unreliable",
                     msg |-> EntityMove(moves[i].x)]])

\* the peers that are sent an AllowConnection among the sends out
AckedBy(out) == {out[i].to : i \in {j \in 1..Len(out) : out[j].msg.type = "AllowConnection"}}

ObsServerTick ==
    /\ runType = "server"
    /\ sNow < MaxTime
    /\ \E errs \in ObsErrors, evs \in ObsEventBatches,
          dStep \in StepTimes, dBody \in BodyTimes :
          \E msgs \in (IF ConnAfter(connection, evs) # NoConn
                       THEN ObsDrains ELSE {<<>>}) :
             /\ Len(recv_sequences) + Len(MovesOf(msgs)) <= MaxRecv
             /\ ServerIter(errs, evs, msgs, dStep, dBody)
             /\ sObs' = [seen    |-> TRUE,
                         start   |-> sNow,
                         elapsed |-> dStep + dBody,
                         errs    |-> errs,
                         evs     |-> evs,
                         last    |-> LastEvent(sObs.last, evs),
                         msgs    |-> msgs,
                         before  |-> connection,
                         out     |-> ServerOutbox(evs, connection', msgs),
                         acked   |-> sObs.acked \cup AckedBy(ServerOutbox(evs, connection', msgs))]
    /\ UNCHANGED <<runType, duration, calc, cVars, tVars, wire, cObs, c2sCopy, dupsRecv>>

HellosOf(msgs) == SelectSeq(msgs, LAMBDA m : m.type = "ConnectionInfo")

\* one observed iteration of the client loop, none starting at or after cap
ObsClientStep(cap) ==
    /\ runType = "client"
    /\ cNow < cap
    /\ \E errs \in ObsErrors, msgs \in ServerDrains,
          dStep \in StepTimes, dBody \in BodyTimes :
          /\ ClientIter(errs, msgs, dStep, dBody)
          /\ LET drained == IF cPc' = "error" THEN <<>> ELSE msgs
             IN  cObs' = [seen    |-> TRUE,
                          start   |-> cNow,
                          elapsed |-> dStep + dBody,
                          errs    |-> errs,
                          msgs    |-> msgs,
                          ackAt   |-> IF AllowsOf(drained) # <<>>
                                      THEN cNow + dStep ELSE cObs.ackAt,
                          sendAt  |-> IF MovesOf(cOut') # <<>>
                                      THEN cNow ELSE cObs.sendAt,
                          acks    |-> cObs.acks + Len(AllowsOf(drained)),
                          hellos  |-> cObs.hellos + Len(HellosOf(cOut'))]
    /\ UNCHANGED <<runType, duration, calc, sVars, tVars, wire, sObs, c2sCopy, dupsRecv>>

ObsClientTick == ObsClientStep(MaxTime)

ObsNext ==
    \/ ObsServerTick
    \/ ServerStats
    \/ ObsClientTick
    \/ ClientStats

SpecObs == Init /\ [][ObsNext]_vars

\* A client run with a longer --duration, long enough for several updates to
\* go out after the acknowledgment.
LongClientTick == ObsClientStep(LongMaxTime)

InitLongClient ==
    /\ runType = "client"
    /\ duration = LongDuration
    /\ calc = NoCalc
    /\ InitServer
    /\ InitClient
    /\ InitTransport
    /\ wire = IdleWire
    /\ sObs = NoServerObs
    /\ cObs = NoClientObs
    /\ c2sCopy = <<>>
    /\ dupsRecv = 0

LongClientNext ==
    \/ LongClientTick
    \/ ClientStats

SpecLongClient == InitLongClient /\ [][LongClientNext]_vars

(***************************************************************************)
(* Properties of the observed runs                                         *)
(***************************************************************************)
RECURSIVE SumCounts(_)
SumCounts(counts) == IF counts = <<>> THEN 0 ELSE Head(counts) + SumCounts(Tail(counts))

\* the last n elements of s
LastN(s, n) == SubSeq(s, Len(s) - n + 1, Len(s))

\* the positions of msgs that hold a PlayerMove
MovePositions(msgs) == {i \in 1..Len(msgs) : msgs[i].type = "PlayerMove"}

\* the echoes among the sends of one server iteration
EchoSends(out) == SelectSeq(out, LAMBDA o : o.msg.type = "EntityMove")
\* the acknowledgments among the sends of one server iteration
AckSends(out) == SelectSeq(out, LAMBDA o : o.msg.type = "AllowConnection")

\* C12: for every PlayerMove the server drains it sends exactly one EntityMove,
\* unreliable, to the connection it drained, carrying the received position;
\* the echo-sent counter, the number of recorded sequences, the number of
\* recorded timestamps and the sum of the Per-Tick Counts are equal at every
\* point; ConnectionInfo and other variants leave no echo and no record.
C12_EchoPerUpdate ==
    /\ entity_move_sent = Len(recv_sequences)
    /\ Len(recv_sequences) = Len(recv_timestamps)
    /\ Len(recv_timestamps) = SumCounts(recv_counts)
    /\ sObs.seen =>
          LET echoes == EchoSends(sObs.out)
              n      == Cardinality(MovePositions(sObs.msgs))
          IN  /\ Len(echoes) = n
              /\ \A i \in 1..Len(echoes) :
                    /\ echoes[i].to = connection
                    /\ echoes[i].class = "Unreliable"
                    /\ \E k \in MovePositions(sObs.msgs) :
                          /\ Cardinality({j \in MovePositions(sObs.msgs) : j <= k}) = i
                          /\ echoes[i].msg.x = sObs.msgs[k].x
                          /\ LastN(recv_sequences, n)[i] = U64OfF32(sObs.msgs[k].x)
              /\ connection # NoConn => recv_counts[Len(recv_counts)] = n
              /\ Len(sObs.out) = Len(echoes) + Len(AckSends(sObs.out))

\* a drain of one PlayerMove and one ConnectionInfo, after an earlier update
C12_Witness ==
    /\ sObs.seen
    /\ sObs.msgs = <<PlayerMove(1), ConnectionInfo>>
    /\ Len(EchoSends(sObs.out)) = 1
    /\ entity_move_sent = 3

\* the positions of evs that hold a Connect event
ConnectPositions(evs) == {i \in 1..Len(evs) : evs[i].kind = "Connect"}

\* C13: the server tracks at most one connection; for every Connect event it
\* sends exactly one AllowConnection, reliable-ordered, to the peer of that
\* event, before any EntityMove to that peer; the slot is overwritten by each
\* Connect, and after a drain it reflects the last event of the drain.
C13_SingleSlot ==
    /\ connection \in {NoConn} \cup ClientIds
    /\ sObs.seen =>
          LET out  == sObs.out
              acks == AckSends(out)
              evs  == sObs.evs
          IN  /\ Len(acks) = Cardinality(ConnectPositions(evs))
              /\ \A i \in 1..Len(acks) :
                    /\ acks[i].class = "ReliableOrdered"
                    /\ \E k \in ConnectPositions(evs) :
                          /\ Cardinality({j \in ConnectPositions(evs) : j <= k}) = i
                          /\ acks[i].to = evs[k].id
              /\ \A i \in 1..Len(out) : \A j \in 1..Len(out) :
                    (out[i].msg.type = "EntityMove" /\ out[j].msg.type = "AllowConnection")
                        => j < i
              /\ \A i \in 1..Len(out) :
                    out[i].msg.type = "EntityMove" => out[i].to \in sObs.acked
              /\ evs = <<>> => connection = sObs.before
              /\ evs # <<>> =>
                    connection = (IF evs[Len(evs)].kind = "Connect"
                                  THEN evs[Len(evs)].id ELSE NoConn)

\* two peers connect in one drain: both are acknowledged, the slot holds the
\* second, and the update drained in that iteration is echoed to the second
C13_Witness ==
    /\ sObs.seen
    /\ sObs.evs = <<Connect(1), Connect(2)>>
    /\ connection = 2
    /\ Len(AckSends(sObs.out)) = 2
    /\ Len(EchoSends(sObs.out)) = 1

\* C14: while a role is disconnected nothing is exchanged or recorded for it:
\* a server iteration whose slot is absent after the connection events sends
\* no message and leaves recv_counts, recv_sequences, recv_timestamps,
\* total_ticks and entity_move_sent as they were; a client iteration in which
\* the flag is not set sends no PlayerMove and leaves sequence, total_sent,
\* the per-tick counts, total_client_ticks and recv_total as they were.
C14_IdleWhileDisconnected ==
    [][ /\ (sNow' # sNow /\ connection' = NoConn)
            => /\ sObs'.out = <<>>
               /\ UNCHANGED <<recv_counts, recv_sequences, recv_timestamps,
                              total_ticks, entity_move_sent>>
        /\ (cNow' # cNow /\ cPc' # "error" /\ ~connected')
            => /\ MovesOf(cOut') = <<>>
               /\ UNCHANGED <<sequence, total_sent, cl_recv_counts,
                              total_client_ticks, recv_total>>
      ]_vars

\* C15: the client sends PlayerMove only behind the connected flag, and the
\* flag is set only by the receipt of an AllowConnection: every iteration that
\* sends a PlayerMove follows the receipt of an AllowConnection and the
\* sending of ConnectionInfo, and a run that has received no AllowConnection
\* has sent no PlayerMove.
C15_SendsGated ==
    /\ [](connected => cObs.acks >= 1)
    /\ [](total_sent > 0 => (cObs.acks >= 1 /\ cObs.hellos >= 1))
    /\ [][ /\ (~connected /\ connected') => AllowsOf(cObs'.msgs) # <<>>
           /\ (cNow' # cNow /\ MovesOf(cOut') # <<>>)
                 => (connected /\ cObs.acks >= 1 /\ cObs.hellos >= 1)
         ]_vars

\* a client that has been acknowledged once and sends an update in a later
\* iteration
C15_Witness ==
    /\ cObs.acks = 1
    /\ cObs.hellos = 1
    /\ total_sent = 1
    /\ MovesOf(cOut) # <<>>

\* C16: over a whole client run ConnectionInfo is sent exactly once if an
\* AllowConnection has been received and never otherwise, whatever else
\* arrives, a further AllowConnection included.
C16_HandshakeOnce ==
    cObs.hellos = (IF cObs.acks > 0 THEN 1 ELSE 0)

\* C17: on the client the first iteration in which the transport yields an
\* error ends the run in that iteration, before any inbound message is
\* drained: nothing is sent, no statistics variable changes, nothing is
\* printed, and no iteration follows.  On the server any number of errors
\* changes neither a statistics variable nor the slot: the iteration goes on
\* with its connection events and messages, and the loop goes on.
C17_ErrorsFatalOnClientOnly ==
    [][ /\ (cNow' # cNow /\ cObs'.errs > 0)
            => /\ cPc' = "error"
               /\ cOut' = <<>>
               /\ UNCHANGED <<connected, sequence, total_sent, cl_recv_counts,
                              recv_total, total_client_ticks, last_send, cReport>>
        /\ (cNow' # cNow /\ cObs'.errs = 0) => cPc' # "error"
        /\ cPc = "error" => UNCHANGED cVars
        /\ (sNow' # sNow /\ sObs'.errs > 0)
            => LET evs   == sObs'.evs
                   moves == Cardinality(MovePositions(sObs'.msgs))
               IN  /\ evs = <<>> => connection' = connection
                   /\ evs # <<>> =>
                         connection' = (IF evs[Len(evs)].kind = "Connect"
                                        THEN evs[Len(evs)].id ELSE NoConn)
                   /\ connection' = NoConn
                         => UNCHANGED <<recv_counts, recv_sequences, recv_timestamps,
                                        total_ticks, entity_move_sent>>
                   /\ connection' # NoConn
                         => /\ recv_counts' = Append(recv_counts, moves)
                            /\ total_ticks' = total_ticks + 1
                            /\ Len(recv_sequences') = Len(recv_sequences) + moves
                            /\ Len(recv_timestamps') = Len(recv_timestamps) + moves
                            /\ entity_move_sent' = entity_move_sent + moves
                   /\ sPc' = (IF sObs'.start + sObs'.elapsed >= TestEnd
                                 /\ connection' # NoConn
                              THEN "stats" ELSE "loop")
      ]_vars

\* a connected client whose transport yields two errors while an
\* AllowConnection and an EntityMove are waiting
C17_Witness ==
    /\ cPc = "error"
    /\ connected
    /\ cObs.errs = 2
    /\ cObs.msgs = <<AllowConnection, EntityMove(F32Int(0))>>

\* C18: a client iteration sends a PlayerMove exactly when the flag is set
\* after the drain and tick start minus last send is at least the send
\* interval, a negative difference counting as zero; last send is the tick
\* start of the previous send or the instant the latest acknowledgment was
\* received, whichever came later.  So an iteration sends at most one update
\* (total_sent <= total_client_ticks), none in the iteration that receives
\* the acknowledgment, the first one at a tick start at least one interval
\* after the acknowledgment, and consecutive ones at tick starts at least one
\* interval apart.
C18_SendCadence ==
    /\ [](total_sent <= total_client_ticks)
    /\ [](connected => last_send = Max(cObs.ackAt, cObs.sendAt))
    /\ [][ cNow' # cNow /\ cPc' # "error" =>
            LET start == cNow
                acked == AllowsOf(cObs'.msgs) # <<>>
                last  == IF acked THEN cObs'.ackAt ELSE last_send
                gap   == IF start - last < 0 THEN 0 ELSE start - last
                sent  == Len(MovesOf(cOut'))
            IN  /\ sent = (IF connected' /\ gap >= SendInterval THEN 1 ELSE 0)
                /\ total_sent' = total_sent + sent
                /\ acked => sent = 0
                /\ sent = 1 =>
                      /\ cObs.ackAt >= 0
                      /\ start - cObs.ackAt >= SendInterval
                      /\ cObs.sendAt >= 0 => start - cObs.sendAt >= SendInterval
         ]_vars

\* the first send, in an iteration that starts exactly one interval after the
\* acknowledgment was received
C18_First ==
    /\ MovesOf(cOut) # <<>>
    /\ total_sent = 1
    /\ cObs.sendAt - cObs.ackAt = SendInterval

\* the second update goes out, at the first tick start that is an interval
\* after the first one, in a run that skipped a send in between
C18_Witness ==
    /\ MovesOf(cOut) # <<>>
    /\ total_sent = 2
    /\ total_client_ticks >= 4

\* C19: on both roles the start of the next iteration is the start of this
\* one plus the larger of the time this one took and the period: an iteration
\* that finishes early is followed by a sleep of exactly the remainder, one
\* that takes the period or longer is followed at once by the next, and
\* starts of consecutive iterations are never less than one period apart,
\* also after an iteration that overran.
C19_FixedPeriod ==
    /\ []((sPc = "loop" /\ sObs.seen)
            => sNow = sObs.start + Max(sObs.elapsed, TickDur))
    /\ []((cPc = "loop" /\ cObs.seen)
            => cNow = cObs.start + Max(cObs.elapsed, StepInterval))
    /\ [][ /\ (sNow' # sNow /\ sPc' = "loop")
               => /\ sObs'.start = sNow
                  /\ sNow' - sNow >= TickDur
                  /\ sNow' - (sNow + sObs'.elapsed)
                        = (IF sObs'.elapsed < TickDur
                           THEN TickDur - sObs'.elapsed ELSE 0)
           /\ (cNow' # cNow /\ cPc' = "loop")
               => /\ cObs'.start = cNow
                  /\ cNow' - cNow >= StepInterval
                  /\ cNow' - (cNow + cObs'.elapsed)
                        = (IF cObs'.elapsed < StepInterval
                           THEN StepInterval - cObs'.elapsed ELSE 0)
         ]_vars

\* a server iteration that finished early and was followed by a sleep of the
\* remainder, directly after an iteration that overran the period
C19_Witness ==
    /\ sPc = "loop"
    /\ sObs.seen
    /\ sObs.start = TickDur + 1
    /\ sObs.elapsed < TickDur
    /\ sNow = sObs.start + TickDur

RECURSIVE HeldAfter(_, _)
\* the peer a slot holds after the events evs if only the disconnection of the
\* peer in the slot empties it
HeldAfter(slot, evs) ==
    IF evs = <<>> THEN slot
    ELSE LET e == Head(evs)
         IN  HeldAfter(IF e.kind = "Connect" THEN e.id
                       ELSE IF e.id = slot THEN NoConn ELSE slot,
                       Tail(evs))

\* C20 as claimed: the slot is absent only if the peer held in it has itself
\* disconnected; a Disconnect event naming an earlier peer, already replaced
\* by a newer Connect, leaves the slot holding the newer connection.
C20_StaleDisconnectKeepsSlot ==
    sObs.seen => connection = HeldAfter(sObs.before, sObs.evs)

\* C20: the slot follows the most recent connection event of the run alone.
\* It is absent exactly when no event has occurred yet or the most recent
\* event is a Disconnect, whatever client id that event names, and it holds
\* the peer of the most recent event when that is a Connect.  So a Disconnect
\* naming an earlier peer empties a slot that holds a newer connection, and in
\* that iteration and every later one up to the next Connect event no tick is
\* recorded and nothing is echoed.
C20_AnyDisconnectClearsSlot ==
    /\ [](/\ connection = NoConn <=> sObs.last.kind \in {"None", "Disconnect"}
          /\ sObs.last.kind = "Connect" => connection = sObs.last.id)
    /\ [][ (sNow' # sNow /\ sObs'.last.kind = "Disconnect")
              => /\ connection' = NoConn
                 /\ EchoSends(sObs'.out) = <<>>
                 /\ UNCHANGED <<recv_counts, recv_sequences, recv_timestamps,
                                total_ticks, entity_move_sent>>
          ]_vars

\* the slot held peer 2, whose updates were being recorded, when the
\* disconnection of peer 1, now the most recent event, emptied it
C20_Witness ==
    /\ sObs.seen
    /\ sObs.before = 2
    /\ sObs.evs = <<Disconnect(1)>>
    /\ sObs.last = Disconnect(1)
    /\ connection = NoConn
    /\ total_ticks >= 1

(***************************************************************************)
(* One client and one server over a transport that keeps the order of the  *)
(* client's messages and loses none, but delivers some PlayerMove messages  *)
(* twice, the second copy directly behind the first.  A drain takes some    *)
(* prefix of what has arrived, so a copy can come out one tick later than   *)
(* its original.                                                            *)
(***************************************************************************)
RECURSIVE Doubled(_, _)
\* the messages out as they arrive when the PlayerMove among them is
\* delivered twice (twice) or once
Doubled(out, twice) ==
    IF out = <<>> THEN <<>>
    ELSE (IF Head(out).type = "PlayerMove" /\ twice
          THEN <<Head(out), Head(out)>> ELSE <<Head(out)>>)
         \o Doubled(Tail(out), twice)

RECURSIVE CopyFlags(_, _)
\* for each message of Doubled(out, twice): is it a second copy
CopyFlags(out, twice) ==
    IF out = <<>> THEN <<>>
    ELSE (IF Head(out).type = "PlayerMove" /\ twice
          THEN <<FALSE, TRUE>> ELSE <<FALSE>>)
         \o CopyFlags(Tail(out), twice)

\* how many of the flags are set
CopiesIn(flags) == Cardinality({i \in 1..Len(flags) : flags[i]})

DupServerStep(cap) ==
    /\ runType = "system"
    /\ sNow < cap
    /\ \E ke \in 0..Len(connQ), dStep \in StepTimes, dBody \in BodyTimes :
          LET evs == SubSeq(connQ, 1, ke)
          IN  \E km \in (IF ConnAfter(connection, evs) # NoConn
                         THEN 0..Len(c2s) ELSE {0}) :
                 LET msgs == SubSeq(c2s, 1, km)
                 IN  /\ ServerIter(0, evs, msgs, dStep, dBody)
                     /\ connQ' = Rest(connQ, ke)
                     /\ c2s' = Rest(c2s, km)
                     /\ c2sCopy' = Rest(c2sCopy, km)
                     /\ dupsRecv' = dupsRecv + CopiesIn(SubSeq(c2sCopy, 1, km))
                     /\ s2c' = s2c \o ServerSends(evs, msgs)
    /\ UNCHANGED <<runType, duration, calc, cVars, clientGone, wire, sObs, cObs>>

DupClientStep(cap) ==
    /\ runType = "system"
    /\ cNow < cap
    /\ \E km \in 0..Len(s2c), dStep \in StepTimes, dBody \in BodyTimes,
          twice \in BOOLEAN :
          /\ ClientIter(0, SubSeq(s2c, 1, km), dStep, dBody)
          /\ s2c' = Rest(s2c, km)
          /\ c2s' = c2s \o Doubled(cOut', twice)
          /\ c2sCopy' = c2sCopy \o CopyFlags(cOut', twice)
    /\ UNCHANGED <<runType, duration, calc, sVars, connQ, clientGone, wire, sObs, cObs,
                   dupsRecv>>

\* a run from the start of both roles, long enough for several updates
DupServerTick == DupServerStep(LongMaxTime)
DupClientTick == DupClientStep(LongMaxTime)

InitDup ==
    /\ runType = "system"
    /\ duration = LongDuration
    /\ calc = NoCalc
    /\ InitServer
    /\ InitClient
    /\ c2s = <<>>
    /\ s2c = <<>>
    /\ connQ = <<Connect(1)>>
    /\ clientGone = FALSE
    /\ wire = IdleWire
    /\ InitObs

DupNext ==
    \/ DupServerTick
    \/ DupClientTick
    \/ ServerStats
    \/ ClientStats
    \/ ClientLeaves

SpecDup == InitDup /\ [][DupNext]_vars

\* the same transport late in a run, from the instant at which the client has
\* sent LongRunSent updates and all of them have been echoed and drained
DupLateServerTick == DupServerStep(MaxTime)
DupLateClientTick == DupClientStep(MaxTime)

DupLateNext ==
    \/ DupLateServerTick
    \/ DupLateClientTick
    \/ ServerStats
    \/ ClientStats
    \/ ClientLeaves

SpecDupLate == InitLongRun /\ [][DupLateNext]_vars

\* C11: over a transport that keeps order and loses nothing but delivers some
\* updates twice, the out-of-order count the server reports equals the number
\* of second copies it has received, however the messages fall into ticks,
\* and is above zero when there is such a copy.
C11_CountsDuplicates ==
    (ServerPrinted /\ ~sReport.noData /\ dupsRecv > 0)
        => /\ sReport.out_of_order > 0
           /\ sReport.out_of_order = dupsRecv

\* the same count at every point of the run
C11_CountsDuplicatesSoFar == OutOfOrder(recv_sequences) = dupsRecv

\* a report after two updates of which both copies of the second and one copy
\* of the first were received
C11_FromStart ==
    /\ ServerPrinted /\ ~sReport.noData
    /\ dupsRecv = 1
    /\ Len(recv_sequences) = 3

====
